---- MODULE Spec2Model ----
(***************************************************************************)
(* localdns: a local authoritative DNS responder.  The record store built  *)
(* by loader::load_records from a DHCP lease file and a hosts file, the    *)
(* reload task of main that polls the files' modification times and swaps  *)
(* the store behind an RwLock, and handle_query, which resolves one        *)
(* datagram against the store.                                             *)
(*                                                                         *)
(* Strings are sequences of one-character strings, so that suffix tests,   *)
(* lowercasing and concatenation are computed character by character.      *)
(* IPv4 addresses are naturals: the big-endian value of the four octets,   *)
(* which is the order Ipv4Addr's Ord uses.                                 *)
(***************************************************************************)
EXTENDS Integers, Sequences, FiniteSets, TLC

VARIABLES
    config,            \* config::Config as loaded at startup
    dhcp_file,         \* the DHCP lease file on disk
    hosts_file,        \* the hosts file on disk
    clock,             \* file-system time: the number of modifications so far
    mainPc,            \* position of main
    records,           \* Arc<RwLock<DnsCache>>: the value behind the lock
    readers,           \* handlers holding a read guard of the RwLock
    writer,            \* TRUE while the reload task holds the write guard
    supPc,             \* position of the reload task
    last_dhcp_mtime,   \* reload task local
    last_hosts_mtime,  \* reload task local
    new_cache,         \* reload task local: the store built by a reload
    last_log,          \* the last line the reload task printed about a reload
    handlers           \* the spawned handle_query tasks, by slot

vars == <<config, dhcp_file, hosts_file, clock, mainPc, records, readers, writer,
          supPc, last_dhcp_mtime, last_hosts_mtime, new_cache, last_log, handlers>>

----------------------------------------------------------------------------
(* F applied to the value of x, with x evaluated once: TLC passes arguments by
   name, and a loop's accumulator would otherwise be recomputed at every use *)
Strict(F(_), x) == CHOOSE r \in {F(y) : y \in {x}} : TRUE

----------------------------------------------------------------------------
(* Strings *)

\* char::to_lowercase on the letters the model uses
ToLowerChar(c) ==
    CASE c = "A" -> "a"
      [] c = "B" -> "b"
      [] c = "C" -> "c"
      [] c = "L" -> "l"
      [] OTHER -> c

\* str::to_lowercase
ToLowercase(s) == [i \in 1..Len(s) |-> ToLowerChar(s[i])]

\* str::starts_with
StartsWith(s, p) == Len(p) <= Len(s) /\ SubSeq(s, 1, Len(p)) = p

\* str::ends_with
EndsWith(s, p) == Len(p) <= Len(s) /\ SubSeq(s, Len(s) - Len(p) + 1, Len(s)) = p

\* str::trim_end_matches('.'): every trailing dot removed
RECURSIVE TrimEndDots(_)
TrimEndDots(s) ==
    IF Len(s) > 0 /\ s[Len(s)] = "." THEN TrimEndDots(SubSeq(s, 1, Len(s) - 1)) ELSE s

IsDigit(c) == c \in {"0", "1", "2", "3", "4", "5", "6", "7", "8", "9"}

DigitVal(c) ==
    CASE c = "0" -> 0 [] c = "1" -> 1 [] c = "2" -> 2 [] c = "3" -> 3 [] c = "4" -> 4
      [] c = "5" -> 5 [] c = "6" -> 6 [] c = "7" -> 7 [] c = "8" -> 8 [] c = "9" -> 9

\* Ipv4Addr::new(a, b, c, d), as the number its ordering compares
Ipv4AddrNew(o) == ((o[1] * 256 + o[2]) * 256 + o[3]) * 256 + o[4]

NoAddr == -1

\* str::parse::<Ipv4Addr>() for dotted quads of one-digit octets; NoAddr is Err
ParseIpv4(t) ==
    IF /\ Len(t) = 7
       /\ \A i \in {2, 4, 6} : t[i] = "."
       /\ \A i \in {1, 3, 5, 7} : IsDigit(t[i])
    THEN Ipv4AddrNew(<<DigitVal(t[1]), DigitVal(t[3]), DigitVal(t[5]), DigitVal(t[7])>>)
    ELSE NoAddr

----------------------------------------------------------------------------
(* Vec<Ipv4Addr> helpers *)

SetMin(S) == CHOOSE x \in S : \A y \in S : x <= y

SetMax(S) == CHOOSE x \in S : \A y \in S : y <= x

\* the Vec of a HashSet left in an iteration order that is not ascending
RECURSIVE SortedVec_Descending(_)
SortedVec_Descending(S) ==
    IF S = {} THEN <<>>
    ELSE LET Rest(m) == <<m>> \o SortedVec_Descending(S \ {m}) IN Strict(Rest, SetMax(S))

\* HashSet::into_iter().collect() followed by Vec::sort(): ascending
RECURSIVE SortedVec(_)
SortedVec(S) ==
    IF S = {} THEN <<>>
    ELSE LET Rest(m) == <<m>> \o SortedVec(S \ {m}) IN Strict(Rest, SetMin(S))

\* insert x into an ascending sequence, keeping equal elements
RECURSIVE InsertSorted(_, _)
InsertSorted(x, s) ==
    IF s = <<>> THEN <<x>>
    ELSE IF x <= Head(s) THEN <<x>> \o s
    ELSE <<Head(s)>> \o InsertSorted(x, Tail(s))

\* Vec::sort_unstable(): ascending, duplicates kept
RECURSIVE SortUnstable(_)
SortUnstable(s) ==
    IF s = <<>> THEN <<>>
    ELSE LET Insert(sorted) == InsertSorted(Head(s), sorted)
         IN Strict(Insert, SortUnstable(Tail(s)))

\* Vec::dedup(): consecutive equal elements collapsed to the first
RECURSIVE Dedup(_)
Dedup(s) ==
    IF Len(s) <= 1 THEN s
    ELSE LET Keep(rest) == IF s[1] = rest[1] THEN rest ELSE <<s[1]>> \o rest
         IN Strict(Keep, Dedup(Tail(s)))

Range(s) == {s[i] : i \in 1..Len(s)}

----------------------------------------------------------------------------
(* loader.rs *)

\* DnsCache::default()
DnsCacheDefault == [exact_matches |-> <<>>, wildcards |-> <<>>]

\* HashMap::entry(k).or_default().insert(ip) on exact_records_temp
EntryInsert(temp, k, ip) ==
    IF k \in DOMAIN temp THEN [temp EXCEPT ![k] = @ \cup {ip}] ELSE temp @@ (k :> {ip})

\* the suffix with a leading dot unless it is empty or has one
SafeSuffix(suffix) ==
    IF StartsWith(suffix, <<".">>) \/ suffix = <<>> THEN suffix ELSE <<".">> \o suffix

\* an fqdn in which only the hostname is lowercased
Fqdn_HostnameOnlyLowercased(hostname, suffix) ==
    ToLowercase(hostname) \o SafeSuffix(suffix) \o <<".">>

\* format!("{}{}.", lease.hostname, safe_suffix).to_lowercase()
Fqdn(hostname, suffix) == ToLowercase(hostname \o SafeSuffix(suffix) \o <<".">>)

\* format!("*.{}.", fqdn.trim_end_matches('.'))
WildcardPattern(fqdn) == <<"*", ".">> \o TrimEndDots(fqdn) \o <<".">>

\* the body of `for lease in data.leases`; st is [temp, wildcards]
LeaseStep(st, lease, suffix) ==
    IF lease.hostname = <<>> THEN st
    ELSE LET ip == Ipv4AddrNew(lease.address)
             fqdn == Fqdn(lease.hostname, suffix)
         IN [temp |-> EntryInsert(st.temp, fqdn, ip),
             wildcards |-> Append(st.wildcards, <<WildcardPattern(fqdn), ip>>)]

RECURSIVE LeasesLoop(_, _, _)
LeasesLoop(st, leases, suffix) ==
    IF leases = <<>> THEN st
    ELSE LET Rest(st2) == LeasesLoop(st2, Tail(leases), suffix)
         IN Strict(Rest, LeaseStep(st, Head(leases), suffix))

\* section 1 of load_records once the DHCP file has been read
LoadDhcp(st, content, suffix) ==
    IF content.kind = "blank" THEN st
    ELSE IF content.kind = "json" THEN LeasesLoop(st, content.leases, suffix)
    ELSE st   \* serde_json::from_str failed: a warning

\* the body of `for hostname in &parts[1..]`, with its break on a '#' token
RECURSIVE HostnamesLoop(_, _, _)
HostnamesLoop(st, names, ip) ==
    IF names = <<>> THEN st
    ELSE IF StartsWith(Head(names), <<"#">>) THEN st
    ELSE LET lower == ToLowercase(Head(names))
             domain == IF EndsWith(lower, <<".">>) THEN lower ELSE lower \o <<".">>
             Rest(st2) == HostnamesLoop(st2, Tail(names), ip)
         IN Strict(Rest, IF StartsWith(domain, <<"*", ".">>)
                         THEN [st EXCEPT !.wildcards = Append(@, <<domain, ip>>)]
                         ELSE [st EXCEPT !.temp = EntryInsert(@, domain, ip)])

\* the body of `for line in content.lines()`; parts is line.split_whitespace()
HostsLineStep(st, parts) ==
    IF parts = <<>> \/ StartsWith(parts[1], <<"#">>) THEN st
    ELSE IF Len(parts) < 2 THEN st
    ELSE IF ParseIpv4(parts[1]) = NoAddr THEN st
    ELSE HostnamesLoop(st, Tail(parts), ParseIpv4(parts[1]))

RECURSIVE HostsLoop(_, _)
HostsLoop(st, lines) ==
    IF lines = <<>> THEN st
    ELSE LET Rest(st2) == HostsLoop(st2, Tail(lines))
         IN Strict(Rest, HostsLineStep(st, Head(lines)))

\* the final loop of load_records: each HashSet becomes a sorted Vec
ExactFromTemp(temp) == [d \in DOMAIN temp |-> SortedVec(temp[d])]

\* Path::exists() followed by fs::read_to_string(): TRUE when the `?` returns Err
ReadFails(file) == file.exists /\ ~file.readable

\* loader::load_records
LoadRecords(dhcp, hosts, suffix) ==
    IF ReadFails(dhcp) THEN [ok |-> FALSE, cache |-> DnsCacheDefault]
    ELSE LET st0 == [temp |-> <<>>, wildcards |-> <<>>]
             Built(st2) == [ok |-> TRUE,
                            cache |-> [exact_matches |-> ExactFromTemp(st2.temp),
                                       wildcards |-> st2.wildcards]]
             Hosts(st1) ==
                 IF ReadFails(hosts) THEN [ok |-> FALSE, cache |-> DnsCacheDefault]
                 ELSE Strict(Built,
                             IF hosts.exists THEN HostsLoop(st1, hosts.content) ELSE st1)
         IN Strict(Hosts, IF dhcp.exists THEN LoadDhcp(st0, dhcp.content, suffix) ELSE st0)

----------------------------------------------------------------------------
(* config.rs *)

NoTtl == -1

\* default_ttl()
default_ttl == 60

\* Config::load: serde fills an omitted ttl with default_ttl(); fallback_ip is an
\* Option, NoAddr standing for None
ConfigLoad(toml) ==
    [domain_suffix |-> toml.domain_suffix,
     ttl |-> IF toml.ttl = NoTtl THEN default_ttl ELSE toml.ttl,
     fallback_ip |-> toml.fallback_ip]

----------------------------------------------------------------------------
(* main.rs: handle_query *)

\* the TTL handle_query gives Record::with
AnswerTtl(cfg) == 60

\* a response that keeps the id Message::new() starts with
NewResponse_NoId(request) ==
    [id |-> 0,
     message_type |-> "Response",
     op_code |-> request.op_code,
     recursion_desired |-> request.recursion_desired,
     recursion_available |-> TRUE,
     queries |-> <<>>,
     answers |-> <<>>,
     response_code |-> "NoError"]

\* lines 146-151: the response header copied from the request
NewResponse(request) ==
    [id |-> request.id,
     message_type |-> "Response",
     op_code |-> request.op_code,
     recursion_desired |-> request.recursion_desired,
     recursion_available |-> TRUE,
     queries |-> <<>>,
     answers |-> <<>>,
     response_code |-> "NoError"]

\* line 154: the first question echoed in the response
EchoQuestion(request) == [NewResponse(request) EXCEPT !.queries = <<request.queries[1]>>]

\* a wildcard test that forgets to exclude the root itself
WildcardMatches_RootIncluded(pattern, lookup_name) ==
    /\ StartsWith(pattern, <<"*", ".">>)
    /\ EndsWith(lookup_name, SubSeq(pattern, 3, Len(pattern)))

\* the test of lines 173-177 / 206-208 for one wildcard pattern
WildcardMatches(pattern, lookup_name) ==
    /\ StartsWith(pattern, <<"*", ".">>)
    /\ LET root_domain == SubSeq(pattern, 3, Len(pattern))
       IN EndsWith(lookup_name, root_domain) /\ Len(lookup_name) > Len(root_domain)

\* line 165-167: found_ips after the exact-match step
ExactIps(exact_matches, lookup_name) ==
    IF lookup_name \in DOMAIN exact_matches THEN exact_matches[lookup_name] ELSE <<>>

\* lines 170-181: found_ips after the loop over the wildcards
RECURSIVE WildcardIps(_, _, _)
WildcardIps(found_ips, wildcards, lookup_name) ==
    IF wildcards = <<>> THEN found_ips
    ELSE LET Rest(found) == WildcardIps(found, Tail(wildcards), lookup_name)
         IN Strict(Rest, IF WildcardMatches(Head(wildcards)[1], lookup_name)
                         THEN Append(found_ips, Head(wildcards)[2]) ELSE found_ips)

\* lines 183-196: the answers and the response code of an A query
FinishA(response, query, found_ips, cfg) ==
    IF found_ips # <<>>
    THEN LET ips == Dedup(SortUnstable(found_ips))
         IN [response EXCEPT
               !.answers = [i \in 1..Len(ips) |->
                              [name |-> query.name, rtype |-> "A",
                               ttl |-> AnswerTtl(cfg), ip |-> ips[i]]],
               !.response_code = "NoError"]
    ELSE [response EXCEPT !.response_code = "NXDomain"]

\* a non-A branch that decides existence by the exact map alone
FinishOther_IgnoresWildcards(response, wildcards, lookup_name) ==
    [response EXCEPT !.response_code = "NXDomain"]

\* lines 204-218: the response code of a non-A query whose name is no exact key
FinishOther(response, wildcards, lookup_name) ==
    IF \E i \in 1..Len(wildcards) : WildcardMatches(wildcards[i][1], lookup_name)
    THEN [response EXCEPT !.response_code = "NoError"]
    ELSE [response EXCEPT !.response_code = "NXDomain"]

\* line 157: name.to_string().to_lowercase()
LookupName(query) == ToLowercase(query.name)

\* lines 159-220 run against one store: the response of a query
ResolveQuery(response, query, cache, cfg) ==
    IF query.query_type = "A"
    THEN FinishA(response, query,
                 WildcardIps(ExactIps(cache.exact_matches, LookupName(query)),
                             cache.wildcards, LookupName(query)),
                 cfg)
    ELSE IF LookupName(query) \in DOMAIN cache.exact_matches
    THEN [response EXCEPT !.response_code = "NoError"]
    ELSE FinishOther(response, cache.wildcards, LookupName(query))

----------------------------------------------------------------------------
(* Files, as the file system presents them *)

None == <<>>
Some(x) == <<x>>

\* std::fs::metadata(path).and_then(|m| m.modified()).ok()
Mtime(file) == IF file.exists THEN Some(file.mtime) ELSE None

BlankDhcp == [kind |-> "blank", leases |-> <<>>]
AbsentDhcp == [exists |-> FALSE, readable |-> FALSE, content |-> BlankDhcp, mtime |-> 0]
AbsentHosts == [exists |-> FALSE, readable |-> FALSE, content |-> <<>>, mtime |-> 0]

----------------------------------------------------------------------------
(* Inputs *)

MaxMods == 2       \* file modifications the environment makes
NumHandlers == 2   \* handle_query tasks alive at once

Handlers == 1..NumHandlers

\* config.toml
Tomls ==
    { [domain_suffix |-> <<"l">>, ttl |-> NoTtl, fallback_ip |-> NoAddr],
      [domain_suffix |-> <<".", "L">>, ttl |-> 300,
       fallback_ip |-> Ipv4AddrNew(<<1, 0, 0, 9>>)] }

Lease(address, hostname) == [address |-> address, hostname |-> hostname]
Json(leases) == [kind |-> "json", leases |-> leases]

\* contents of the DHCP lease file
DhcpJson1 == Json(<<Lease(<<1, 0, 0, 1>>, <<"b">>)>>)
DhcpJson2 ==
    Json(<<Lease(<<1, 0, 0, 2>>, <<"B">>), Lease(<<1, 0, 0, 1>>, <<"b">>),
           Lease(<<1, 0, 0, 3>>, <<>>), Lease(<<1, 0, 0, 2>>, <<"b">>)>>)
DhcpGarbage == [kind |-> "garbage", leases |-> <<>>]

DhcpContents == {DhcpJson1, DhcpJson2, DhcpGarbage, BlankDhcp}

\* contents of the hosts file: lines, each split at whitespace
HostsLines1 ==
    << <<<<"1", ".", "0", ".", "0", ".", "1">>, <<"b", ".", "l">>, <<"*", ".", "l">>>> >>
HostsLines2 ==
    << <<<<"#">>, <<"x">>>>,
       <<<<"x", ".", "y">>, <<"b", ".", "l">>>>,
       <<<<"1", ".", "0", ".", "0", ".", "4">>>>,
       <<>>,
       <<<<"1", ".", "0", ".", "0", ".", "3">>, <<"B", ".", "L", ".">>, <<"*", ".", "L">>,
         <<"#", "c">>, <<"z">>>>,
       <<<<"1", ".", "0", ".", "0", ".", "1">>, <<"*", ".", "b", ".", "l">>>> >>

HostsContents == {HostsLines1, HostsLines2, <<>>}

FileStates(contents, absent) ==
    {absent} \cup [exists : {TRUE}, readable : BOOLEAN, content : contents, mtime : {0}]

\* datagrams
Question(name, qtype) == [name |-> name, query_type |-> qtype]
Datagram(src, id, rd, queries) ==
    [src |-> src, decodable |-> TRUE, id |-> id, op_code |-> "Query",
     recursion_desired |-> rd, queries |-> queries]
Undecodable == [src |-> "p0", decodable |-> FALSE, id |-> 0, op_code |-> "Query",
                recursion_desired |-> FALSE, queries |-> <<>>]

QueryNames ==
    { <<"b", ".", "l", ".">>, <<"a", ".", "b", ".", "l", ".">>, <<"a", "b", ".", "l", ".">>,
      <<"B", ".", "L", ".">>, <<"l", ".">>, <<"z", ".">> }

\* a message with another opcode, which handle_query resolves like any other
StatusQuery ==
    [Datagram("p3", 9, FALSE, <<Question(<<"b", ".", "l", ".">>, "A")>>)
       EXCEPT !.op_code = "Status"]

Datagrams ==
    {Undecodable, Datagram("p1", 7, TRUE, <<>>), StatusQuery}
    \cup {Datagram("p1", 7, TRUE, <<Question(n, "A")>>) : n \in QueryNames}
    \cup {Datagram("p2", 8, FALSE, <<Question(n, "AAAA")>>) : n \in QueryNames}
    \cup {Datagram("p2", 8, FALSE, <<Question(<<"z", ".">>, "A"),
                             Question(<<"b", ".", "l", ".">>, "A")>>)}

----------------------------------------------------------------------------
(* State *)

NoResponse == [response_code |-> "none"]
IdleHandler ==
    [pc |-> "idle", data |-> Undecodable, found_ips |-> <<>>, response |-> NoResponse,
     sent |-> <<>>]

InitWith(tomls, dhcpFiles, hostsFiles) ==
    /\ config \in {ConfigLoad(t) : t \in tomls}
    /\ dhcp_file \in dhcpFiles
    /\ hosts_file \in hostsFiles
    /\ clock = 0
    /\ mainPc = "load"
    /\ records = DnsCacheDefault
    /\ readers = {}
    /\ writer = FALSE
    /\ supPc = "unspawned"
    /\ last_dhcp_mtime = None
    /\ last_hosts_mtime = None
    /\ new_cache = DnsCacheDefault
    /\ last_log = "none"
    /\ handlers = [h \in Handlers |-> IdleHandler]

fileVars == <<dhcp_file, hosts_file, clock>>
lockVars == <<records, readers, writer>>
supVars == <<supPc, last_dhcp_mtime, last_hosts_mtime, new_cache, last_log>>

----------------------------------------------------------------------------
(* main *)

\* lines 41-57: the initial load, whose `?` ends the process on Err, and the spawn
\* of the reload task
InitialLoad ==
    /\ mainPc = "load"
    /\ LET r == LoadRecords(dhcp_file, hosts_file, config.domain_suffix)
       IN IF r.ok
          THEN /\ records' = r.cache
               /\ mainPc' = "serve"
               /\ supPc' = "start"
          ELSE /\ mainPc' = "exited"
               /\ UNCHANGED <<records, supPc>>
    /\ UNCHANGED <<config, fileVars, readers, writer, last_dhcp_mtime, last_hosts_mtime,
                   new_cache, last_log, handlers>>

\* a loop that awaits handle_query itself instead of spawning a task for it
Receive_AwaitsHandler(h, d) ==
    /\ mainPc = "serve"
    /\ \A g \in Handlers : handlers[g].pc \in {"idle", "done", "failed"}
    /\ handlers' = [handlers EXCEPT ![h] = [IdleHandler EXCEPT !.pc = "start", !.data = d]]
    /\ UNCHANGED <<config, fileVars, mainPc, lockVars, supVars>>

\* lines 110-127: one datagram received and a handle_query task spawned for it
Receive(h, d) ==
    /\ mainPc = "serve"
    /\ handlers[h].pc \in {"idle", "done", "failed"}
    /\ handlers' = [handlers EXCEPT ![h] = [IdleHandler EXCEPT !.pc = "start", !.data = d]]
    /\ UNCHANGED <<config, fileVars, mainPc, lockVars, supVars>>

----------------------------------------------------------------------------
(* the reload task, main.rs lines 57-96 *)

\* lines 58-59: the baseline modification times
SupStart ==
    /\ supPc = "start"
    /\ last_dhcp_mtime' = Mtime(dhcp_file)
    /\ last_hosts_mtime' = Mtime(hosts_file)
    /\ supPc' = "sleep"
    /\ UNCHANGED <<config, fileVars, mainPc, lockVars, new_cache, last_log, handlers>>

\* a change detection that looks at the DHCP file only
ReloadNeeded_DhcpOnly(current_dhcp_mtime, current_hosts_mtime) ==
    current_dhcp_mtime # last_dhcp_mtime

\* lines 67-80: reload_needed after the two comparisons
ReloadNeeded(current_dhcp_mtime, current_hosts_mtime) ==
    \/ current_dhcp_mtime # last_dhcp_mtime
    \/ current_hosts_mtime # last_hosts_mtime

\* a poll that takes the write lock before the rebuild instead of after it
Poll_LocksBeforeLoad ==
    /\ supPc = "sleep"
    /\ LET current_dhcp_mtime == Mtime(dhcp_file)
           current_hosts_mtime == Mtime(hosts_file)
           reload_needed == \/ current_dhcp_mtime # last_dhcp_mtime
                            \/ current_hosts_mtime # last_hosts_mtime
       IN /\ reload_needed => (readers = {} /\ ~writer)
          /\ last_dhcp_mtime' = current_dhcp_mtime
          /\ last_hosts_mtime' = current_hosts_mtime
          /\ writer' = (writer \/ reload_needed)
          /\ supPc' = IF reload_needed THEN "load" ELSE "sleep"
    /\ UNCHANGED <<config, fileVars, mainPc, records, readers, new_cache, last_log,
                   handlers>>

\* lines 62-81: one poll after the sleep; each recorded time that differs is
\* overwritten with the current one
Poll ==
    /\ supPc = "sleep"
    /\ LET current_dhcp_mtime == Mtime(dhcp_file)
           current_hosts_mtime == Mtime(hosts_file)
       IN /\ last_dhcp_mtime' = current_dhcp_mtime
          /\ last_hosts_mtime' = current_hosts_mtime
          /\ supPc' = IF ReloadNeeded(current_dhcp_mtime, current_hosts_mtime)
                      THEN "load" ELSE "sleep"
    /\ UNCHANGED <<config, fileVars, mainPc, lockVars, new_cache, last_log, handlers>>

\* a reload task that goes on to the swap whatever load_records returned
AfterReload_AlwaysSwaps(r) == "write_wait"

\* lines 82-93: where the match on load_records' result takes the reload task
AfterReload(r) == IF r.ok THEN "write_wait" ELSE "sleep"

\* line 82: load_records; Ok goes on to the write lock, Err is logged
Reload ==
    /\ supPc = "load"
    /\ LET r == LoadRecords(dhcp_file, hosts_file, config.domain_suffix)
       IN /\ supPc' = AfterReload(r)
          /\ new_cache' = IF r.ok THEN r.cache ELSE new_cache
          /\ last_log' = IF r.ok THEN last_log ELSE "failed"
    /\ UNCHANGED <<config, fileVars, mainPc, lockVars, last_dhcp_mtime, last_hosts_mtime,
                   handlers>>

\* a write lock that does not wait for the read guards to be dropped
WriteLockFree_IgnoresReaders == ~writer

\* RwLock::write() is granted when no guard is held
WriteLockFree == readers = {} /\ ~writer

\* line 87: records_clone.write().await returns
AcquireWrite ==
    /\ supPc = "write_wait"
    /\ WriteLockFree
    /\ writer' = TRUE
    /\ supPc' = "swap"
    /\ UNCHANGED <<config, fileVars, mainPc, records, readers, last_dhcp_mtime,
                   last_hosts_mtime, new_cache, last_log, handlers>>

\* a swap that adds the new wildcards to the store in place
Swap_PatchesInPlace ==
    /\ supPc = "swap"
    /\ records' = [exact_matches |-> new_cache.exact_matches,
                   wildcards |-> records.wildcards \o new_cache.wildcards]
    /\ new_cache' = DnsCacheDefault
    /\ last_log' = "reloaded"
    /\ writer' = FALSE
    /\ supPc' = "sleep"
    /\ UNCHANGED <<config, fileVars, mainPc, readers, last_dhcp_mtime, last_hosts_mtime,
                   handlers>>

\* lines 88-90: *writer = new_cache, the guard dropped, the reload reported
Swap ==
    /\ supPc = "swap"
    /\ records' = new_cache
    /\ new_cache' = DnsCacheDefault
    /\ last_log' = "reloaded"
    /\ writer' = FALSE
    /\ supPc' = "sleep"
    /\ UNCHANGED <<config, fileVars, mainPc, readers, last_dhcp_mtime, last_hosts_mtime,
                   handlers>>

----------------------------------------------------------------------------
(* handle_query, main.rs lines 131-230 *)

FirstQuery(h) == handlers[h].data.queries[1]

\* RwLock::read() is granted when no writer holds the lock or waits for it
\* (tokio's RwLock is fair: a queued writer goes before later readers)
ReadLockFree == ~writer /\ supPc # "write_wait"

\* a handler that asks for the read lock before it looks for a question
ParseOutcome_LockBeforeCheck(d) ==
    IF ~d.decodable
    THEN [pc |-> "failed", response |-> NoResponse]
    ELSE [pc |-> "read_wait",
          response |-> [NewResponse(d) EXCEPT
                          !.queries = IF d.queries = <<>> THEN <<>> ELSE <<d.queries[1]>>]]

\* lines 138-158 and 221-223: Err on a decode failure; FormErr and on to the send
\* when there is no question; else the first question echoed and on to the lock
ParseOutcome(d) ==
    IF ~d.decodable
    THEN [pc |-> "failed", response |-> NoResponse]
    ELSE IF d.queries = <<>>
    THEN [pc |-> "send",
          response |-> [NewResponse(d) EXCEPT !.response_code = "FormErr"]]
    ELSE [pc |-> "read_wait", response |-> EchoQuestion(d)]

Parse(h) ==
    /\ handlers[h].pc = "start"
    /\ LET o == ParseOutcome(handlers[h].data)
       IN handlers' = [handlers EXCEPT ![h].pc = o.pc, ![h].response = o.response]
    /\ UNCHANGED <<config, fileVars, mainPc, lockVars, supVars>>

\* line 159: records.read().await returns
AcquireRead(h) ==
    /\ handlers[h].pc = "read_wait"
    /\ ReadLockFree
    /\ readers' = readers \cup {h}
    /\ handlers' = [handlers EXCEPT ![h].pc = "exact"]
    /\ UNCHANGED <<config, fileVars, mainPc, records, writer, supVars>>

\* lines 163-167 and 200-201: the read of exact_matches; a non-A query whose name
\* is a key is finished here and its guard dropped
LookupExact(h) ==
    /\ handlers[h].pc = "exact"
    /\ LET q == FirstQuery(h)
           lookup_name == LookupName(q)
       IN IF q.query_type = "A"
          THEN /\ handlers' = [handlers EXCEPT
                     ![h].found_ips = ExactIps(records.exact_matches, lookup_name),
                     ![h].pc = "wild"]
               /\ readers' = readers
          ELSE IF lookup_name \in DOMAIN records.exact_matches
          THEN /\ handlers' = [handlers EXCEPT
                     ![h].response.response_code = "NoError",
                     ![h].pc = "send"]
               /\ readers' = readers \ {h}
          ELSE /\ handlers' = [handlers EXCEPT ![h].pc = "wild"]
               /\ readers' = readers
    /\ UNCHANGED <<config, fileVars, mainPc, records, writer, supVars>>

\* a lookup whose read guard lives until handle_query returns
LookupWildcards_GuardKept(h) ==
    /\ handlers[h].pc = "wild"
    /\ LET q == handlers[h].data.queries[1]
           lookup_name == LookupName(q)
           hd == handlers[h]
       IN handlers' = [handlers EXCEPT
            ![h].response =
                IF q.query_type = "A"
                THEN FinishA(hd.response, q,
                             WildcardIps(hd.found_ips, records.wildcards, lookup_name),
                             config)
                ELSE FinishOther(hd.response, records.wildcards, lookup_name),
            ![h].found_ips = <<>>,
            ![h].pc = "send"]
    /\ UNCHANGED <<config, fileVars, mainPc, lockVars, supVars>>

\* lines 170-196 and 204-221: the read of wildcards, the outcome, the guard dropped
LookupWildcards(h) ==
    /\ handlers[h].pc = "wild"
    /\ LET q == FirstQuery(h)
           lookup_name == LookupName(q)
           hd == handlers[h]
       IN handlers' = [handlers EXCEPT
            ![h].response =
                IF q.query_type = "A"
                THEN FinishA(hd.response, q,
                             WildcardIps(hd.found_ips, records.wildcards, lookup_name),
                             config)
                ELSE FinishOther(hd.response, records.wildcards, lookup_name),
            ![h].found_ips = <<>>,
            ![h].pc = "send"]
    /\ readers' = readers \ {h}
    /\ UNCHANGED <<config, fileVars, mainPc, records, writer, supVars>>

\* lines 226-229: the response serialized and sent to src
Send(h) ==
    /\ handlers[h].pc = "send"
    /\ handlers' = [handlers EXCEPT
         ![h].sent = Append(@, [to |-> handlers[h].data.src,
                                response |-> handlers[h].response]),
         ![h].pc = "done"]
    /\ UNCHANGED <<config, fileVars, mainPc, lockVars, supVars>>

\* lines 226-227: to_vec() or send_to() returns Err, which `?` returns
SendFail(h) ==
    /\ handlers[h].pc = "send"
    /\ handlers' = [handlers EXCEPT ![h].pc = "failed"]
    /\ UNCHANGED <<config, fileVars, mainPc, lockVars, supVars>>

----------------------------------------------------------------------------
(* The environment: other processes writing the two files *)

Written(file, content) ==
    [exists |-> TRUE, readable |-> IF file.exists THEN file.readable ELSE TRUE,
     content |-> content, mtime |-> clock + 1]

WriteDhcp(content) ==
    /\ clock < MaxMods
    /\ dhcp_file' = Written(dhcp_file, content)
    /\ clock' = clock + 1
    /\ UNCHANGED <<config, hosts_file, mainPc, lockVars, supVars, handlers>>

WriteHosts(content) ==
    /\ clock < MaxMods
    /\ hosts_file' = Written(hosts_file, content)
    /\ clock' = clock + 1
    /\ UNCHANGED <<config, dhcp_file, mainPc, lockVars, supVars, handlers>>

RemoveDhcp ==
    /\ dhcp_file.exists
    /\ dhcp_file' = AbsentDhcp
    /\ UNCHANGED <<config, hosts_file, clock, mainPc, lockVars, supVars, handlers>>

RemoveHosts ==
    /\ hosts_file.exists
    /\ hosts_file' = AbsentHosts
    /\ UNCHANGED <<config, dhcp_file, clock, mainPc, lockVars, supVars, handlers>>

\* a change of permissions, which leaves the modification time alone
ChmodDhcp ==
    /\ dhcp_file.exists
    /\ dhcp_file' = [dhcp_file EXCEPT !.readable = ~@]
    /\ UNCHANGED <<config, hosts_file, clock, mainPc, lockVars, supVars, handlers>>

ChmodHosts ==
    /\ hosts_file.exists
    /\ hosts_file' = [hosts_file EXCEPT !.readable = ~@]
    /\ UNCHANGED <<config, dhcp_file, clock, mainPc, lockVars, supVars, handlers>>

----------------------------------------------------------------------------------------------------------------------------------------
(* Specifications *)

Present(content) == [exists |-> TRUE, readable |-> TRUE, content |-> content, mtime |-> 0]

FewTomls == {[domain_suffix |-> <<"l">>, ttl |-> NoTtl, fallback_ip |-> NoAddr]}

QueryBL == Datagram("p1", 7, TRUE, <<Question(<<"b", ".", "l", ".">>, "A")>>)

FewDatagrams ==
    { Undecodable,
      Datagram("p1", 7, TRUE, <<>>),
      QueryBL,
      Datagram("p2", 8, FALSE, <<Question(<<"b", ".", "l", ".">>, "AAAA")>>) }

Supervisor == SupStart \/ Poll \/ Reload \/ AcquireWrite \/ Swap

Handler(h) ==
    \/ Parse(h)
    \/ AcquireRead(h)
    \/ LookupExact(h)
    \/ LookupWildcards(h)
    \/ Send(h)
    \/ SendFail(h)

\* The whole service with one handler slot in use: the files change in every way
\* while the reload task polls them.
Init ==
    InitWith(FewTomls, FileStates({DhcpJson1}, AbsentDhcp),
             FileStates({HostsLines1}, AbsentHosts))

Next ==
    \/ InitialLoad
    \/ \E d \in {QueryBL, Undecodable} : Receive(1, d)
    \/ Supervisor
    \/ Handler(1)
    \/ \E c \in {DhcpJson2, DhcpGarbage} : WriteDhcp(c)
    \/ WriteHosts(HostsLines2)
    \/ RemoveDhcp
    \/ RemoveHosts
    \/ ChmodDhcp
    \/ ChmodHosts

Spec == Init /\ [][Next]_vars

\* Every handler slot in use, against reloads caused by rewrites of the lease file.
InitHandlers == InitWith(FewTomls, {Present(DhcpJson1)}, {Present(HostsLines1)})

NextHandlers ==
    \/ InitialLoad
    \/ \E h \in Handlers, d \in FewDatagrams : Receive(h, d)
    \/ Supervisor
    \/ \E h \in Handlers : Handler(h)
    \/ WriteDhcp(DhcpJson2)

SpecHandlers == InitHandlers /\ [][NextHandlers]_vars

\* Resolution of every datagram against the store of every configuration and
\* every state of the two files.
InitResolve ==
    InitWith(Tomls, FileStates(DhcpContents, AbsentDhcp),
             FileStates(HostsContents, AbsentHosts))

NextResolve ==
    \/ InitialLoad
    \/ \E d \in Datagrams : Receive(1, d)
    \/ Handler(1)

SpecResolve == InitResolve /\ [][NextResolve]_vars

\* The service under fair scheduling of its tasks, the files readable and changed
\* only after the reload task has recorded its baseline times.
BaselineRecorded == supPc \notin {"unspawned", "start"}

InitLive == InitWith(FewTomls, {Present(DhcpJson1)}, {Present(HostsLines1)})

NextLive ==
    \/ InitialLoad
    \/ Receive(1, QueryBL)
    \/ Supervisor
    \/ Handler(1)
    \/ BaselineRecorded /\ WriteDhcp(DhcpJson2)
    \/ BaselineRecorded /\ WriteHosts(HostsLines2)
    \/ BaselineRecorded /\ RemoveDhcp
    \/ BaselineRecorded /\ RemoveHosts

SpecLive ==
    /\ InitLive
    /\ [][NextLive]_vars
    /\ WF_vars(InitialLoad)
    /\ WF_vars(Supervisor)
    /\ WF_vars(Handler(1))

----------------------------------------------------------------------------
(* Claims *)

Looking(h) == handlers[h].pc \in {"exact", "wild"}
Answered(h) == handlers[h].pc \in {"send", "done"}
HasQuestion(h) == handlers[h].data.decodable /\ handlers[h].data.queries # <<>>
AnswerIps(h) == [i \in 1..Len(handlers[h].response.answers) |->
                   handlers[h].response.answers[i].ip]

\* C1: whenever a handler finishes its lookup, the response it has built from its
\* read of exact_matches and its later read of wildcards is the response of the
\* whole lookup run against the one store that is behind the lock at that moment;
\* and while any handler is between the two reads the store is not replaced.
C1_LookupSeesOneStore ==
    [][\A h \in Handlers :
          /\ (Looking(h) /\ handlers'[h].pc = "send")
                => handlers'[h].response =
                       ResolveQuery(EchoQuestion(handlers[h].data), FirstQuery(h),
                                    records, config)
          /\ Looking(h) => records' = records]_vars

\* C1 witness: a handler has resolved b.l. against the store a reload installed
\* (only that store holds two addresses for it) while another is mid-lookup.
C1_Witness ==
    \E h, g \in Handlers :
        /\ h # g
        /\ handlers[h].pc = "send"
        /\ Len(handlers[h].response.answers) = 2
        /\ handlers[g].pc = "wild"
        /\ last_log = "reloaded"

\* C9: a decodable message without a question never holds or waits for the read
\* lock and is never in a lookup step; its response is FormErr with no answers.
C9_NoQuestionFormErr ==
    \A h \in Handlers :
        (handlers[h].pc # "idle" /\ handlers[h].data.decodable
           /\ handlers[h].data.queries = <<>>)
        => /\ h \notin readers
           /\ handlers[h].pc \in {"start", "send", "done", "failed"}
           /\ Answered(h) => /\ handlers[h].response.response_code = "FormErr"
                             /\ handlers[h].response.answers = <<>>
           /\ \A i \in 1..Len(handlers[h].sent) :
                 /\ handlers[h].sent[i].response.response_code = "FormErr"
                 /\ handlers[h].sent[i].response.answers = <<>>

\* C9 witness: the FormErr response of a question-less message has been sent.
C9_Witness ==
    \E h \in Handlers :
        /\ handlers[h].pc = "done"
        /\ handlers[h].data.decodable
        /\ handlers[h].data.queries = <<>>
        /\ Len(handlers[h].sent) = 1
        /\ handlers[h].sent[1].response.response_code = "FormErr"

\* the statement's own vocabulary, independent of the lookup operators
IsSuffix(r, n) == \E k \in 0..Len(n) : SubSeq(n, k + 1, Len(n)) = r
StrictlyAscending(v) == \A i \in 1..Len(v) - 1 : v[i] < v[i + 1]
Root(pattern) == SubSeq(pattern, 3, Len(pattern))
ExactSet(cache, n) ==
    IF n \in DOMAIN cache.exact_matches THEN Range(cache.exact_matches[n]) ELSE {}
WildSet(cache, n) ==
    {cache.wildcards[i][2] :
       i \in {j \in 1..Len(cache.wildcards) :
                /\ IsSuffix(Root(cache.wildcards[j][1]), n)
                /\ Len(Root(cache.wildcards[j][1])) < Len(n)}}
AQuery(h) == HasQuestion(h) /\ FirstQuery(h).query_type = "A"
OtherQuery(h) == HasQuestion(h) /\ FirstQuery(h).query_type # "A"

\* C2: the answers of an A query are the strictly ascending list of the union of
\* the exact addresses of the lowercased name and the addresses of the wildcards
\* whose root is a proper suffix of it; NoError when there are any, else NXDomain
\* with no answers.
C2_AnswersAreSortedUnion ==
    \A h \in Handlers :
        (Answered(h) /\ AQuery(h))
        => LET n == LookupName(FirstQuery(h))
               u == ExactSet(records, n) \cup WildSet(records, n)
           IN /\ Range(AnswerIps(h)) = u
              /\ Len(AnswerIps(h)) = Cardinality(u)
              /\ StrictlyAscending(AnswerIps(h))
              /\ handlers[h].response.response_code
                   = IF u = {} THEN "NXDomain" ELSE "NoError"

\* C2 witness: an address that the exact entry and a wildcard both contribute is
\* answered once.
C2_Witness ==
    \E h \in Handlers :
        /\ Answered(h) /\ AQuery(h)
        /\ LET n == LookupName(FirstQuery(h))
           IN /\ ExactSet(records, n) \cap WildSet(records, n) # {}
              /\ Len(handlers[h].response.answers) = 1

\* C3: a non-A query has no answers; its code is NoError exactly when the
\* lowercased name is an exact key or a wildcard matches it, else NXDomain; and it
\* is the code an A query for the same name gets from the same store.
C3_OtherTypesExistenceOnly ==
    \A h \in Handlers :
        (Answered(h) /\ OtherQuery(h))
        => LET n == LookupName(FirstQuery(h))
               exists == \/ n \in DOMAIN records.exact_matches
                         \/ WildSet(records, n) # {}
               asA == [FirstQuery(h) EXCEPT !.query_type = "A"]
           IN /\ handlers[h].response.answers = <<>>
              /\ handlers[h].response.response_code
                   = IF exists THEN "NoError" ELSE "NXDomain"
              /\ handlers[h].response.response_code
                   = ResolveQuery(handlers[h].response, asA, records, config).response_code

\* C3 witness: a non-A query for a name that only a wildcard covers is answered
\* NoError without answers.
C3_Witness ==
    \E h \in Handlers :
        /\ Answered(h) /\ OtherQuery(h)
        /\ LookupName(FirstQuery(h)) \notin DOMAIN records.exact_matches
        /\ handlers[h].response.response_code = "NoError"
        /\ handlers[h].response.answers = <<>>

\* C4: load_records never returns Err, whatever the state of the two files:
\* startup is not aborted and no reload fails.
C4_LoadNeverFails ==
    /\ mainPc # "exited"
    /\ last_log # "failed"

\* C7: every answer record carries the configured TTL.
C7_AnswerTtlIsConfigTtl ==
    \A h \in Handlers :
        Answered(h)
        => \A i \in 1..Len(handlers[h].response.answers) :
              handlers[h].response.answers[i].ttl = config.ttl

\* C8: an A query that nothing matches is answered with the fallback address when
\* one is configured, and NXDomain only when none is.
C8_FallbackOnNoMatch ==
    \A h \in Handlers :
        (Answered(h) /\ AQuery(h)
           /\ ExactSet(records, LookupName(FirstQuery(h))) = {}
           /\ WildSet(records, LookupName(FirstQuery(h))) = {})
        => IF config.fallback_ip # NoAddr
           THEN /\ AnswerIps(h) = <<config.fallback_ip>>
                /\ handlers[h].response.response_code = "NoError"
           ELSE handlers[h].response.response_code = "NXDomain"

\* C5: the step that ends a failed reload leaves the store, the lock and the
\* service as they were, takes the reload task back to its sleep and logs; the
\* write lock is not taken.
C5_FailedReloadKeepsStore ==
    [][(/\ supPc = "load"
        /\ supPc' # "load"
        /\ ~LoadRecords(dhcp_file, hosts_file, config.domain_suffix).ok)
       => /\ supPc' = "sleep"
          /\ records' = records
          /\ ~writer /\ ~writer'
          /\ readers' = readers
          /\ new_cache' = new_cache
          /\ mainPc' = "serve"
          /\ last_log' = "failed"]_vars

\* C5 witness: after a failed reload the task sleeps again, the store still holds
\* records and a query has been answered from it.
C5_Witness ==
    /\ last_log = "failed"
    /\ supPc = "sleep"
    /\ ~writer
    /\ records.exact_matches # <<>>
    /\ \E h \in Handlers :
          /\ handlers[h].pc = "send"
          /\ handlers[h].response.response_code = "NoError"
          /\ Len(handlers[h].response.answers) > 0

\* C6: under fair scheduling, with readable files that change only after the
\* baseline and always change their modification time, the active store is
\* eventually, and from then on always, the store built from the files as they are.
C6_NoUpdateMissed ==
    <>[](/\ mainPc = "serve"
         /\ records = LoadRecords(dhcp_file, hosts_file, config.domain_suffix).cache)

\* what the two files contribute to a domain, read off the file contents
NormalizedHost(t) ==
    IF Len(t) > 0 /\ ToLowercase(t)[Len(t)] = "." THEN ToLowercase(t)
    ELSE ToLowercase(t) \o <<".">>
DhcpContribution(file, suffix, domain) ==
    IF file.exists /\ file.content.kind = "json"
    THEN {Ipv4AddrNew(file.content.leases[i].address) :
            i \in {j \in 1..Len(file.content.leases) :
                     /\ file.content.leases[j].hostname # <<>>
                     /\ Fqdn(file.content.leases[j].hostname, suffix) = domain}}
    ELSE {}
HostsContribution(file, domain) ==
    IF file.exists
    THEN {ParseIpv4(file.content[i][1]) :
            i \in {j \in 1..Len(file.content) :
                     LET line == file.content[j]
                     IN /\ Len(line) >= 2
                        /\ line[1][1] # "#"
                        /\ ParseIpv4(line[1]) # NoAddr
                        /\ \E k \in 2..Len(line) :
                              /\ NormalizedHost(line[k]) = domain
                              /\ \A m \in 2..k : line[m][1] # "#"}}
    ELSE {}
EntriesMatch(cache, dhcp, hosts, suffix) ==
    \A domain \in DOMAIN cache.exact_matches :
        LET v == cache.exact_matches[domain]
        IN /\ v # <<>>
           /\ StrictlyAscending(v)
           /\ Range(v) = DhcpContribution(dhcp, suffix, domain)
                           \cup HostsContribution(hosts, domain)

\* C10: every entry of the active store is non-empty and strictly ascending, and
\* the store that the initial load or a reload builds holds for each domain the
\* addresses that the two files, as read, contribute to it; the swap installs
\* that store unchanged.
C10_ExactEntriesSortedMerged ==
    /\ [](mainPc = "serve" =>
            \A domain \in DOMAIN records.exact_matches :
                /\ records.exact_matches[domain] # <<>>
                /\ StrictlyAscending(records.exact_matches[domain]))
    /\ [][/\ (mainPc = "load" /\ mainPc' = "serve")
               => EntriesMatch(records', dhcp_file, hosts_file, config.domain_suffix)
          /\ (supPc = "load" /\ supPc' = "write_wait")
               => EntriesMatch(new_cache', dhcp_file, hosts_file, config.domain_suffix)
          /\ (supPc = "swap" /\ supPc' = "sleep") => records' = new_cache]_vars

\* C10 witness: a reload has installed a store in which one domain holds three
\* addresses, merged from leases and hosts lines.
C10_Witness ==
    /\ last_log = "reloaded"
    /\ \E domain \in DOMAIN records.exact_matches :
          /\ Len(records.exact_matches[domain]) = 3
          /\ DhcpContribution(dhcp_file, config.domain_suffix, domain) # {}
          /\ HostsContribution(hosts_file, domain) # {}

\* a root that ends the name right after one of the name's label separators
IsSubdomainOf(n, r) ==
    /\ Len(n) > Len(r) + 1
    /\ SubSeq(n, Len(n) - Len(r) + 1, Len(n)) = r
    /\ n[Len(n) - Len(r)] = "."
SubdomainWildSet(cache, n) ==
    {cache.wildcards[i][2] :
       i \in {j \in 1..Len(cache.wildcards) : IsSubdomainOf(n, Root(cache.wildcards[j][1]))}}

\* C11: an A query gets an address from a wildcard only when its name is one or
\* more whole labels followed by the wildcard's root: every answered address is an
\* exact address of the name or the address of a wildcard of which the name is a
\* subdomain at a label boundary.
C11_WildcardOnlyAtLabelBoundary ==
    \A h \in Handlers :
        (Answered(h) /\ AQuery(h))
        => LET n == LookupName(FirstQuery(h))
           IN Range(AnswerIps(h)) \subseteq ExactSet(records, n) \cup SubdomainWildSet(records, n)

\* the statement's normalized_suffix and its notion of a lowercase string
NormalizedSuffix(suffix) ==
    IF suffix = <<>> THEN <<>>
    ELSE IF suffix[1] = "." THEN suffix
    ELSE <<".">> \o suffix
IsLowercaseStr(s) == \A i \in 1..Len(s) : s[i] \notin {"A", "B", "C", "L"}
NamedLeases(file) ==
    IF file.exists /\ file.content.kind = "json"
    THEN {file.content.leases[i] :
            i \in {j \in 1..Len(file.content.leases) : file.content.leases[j].hostname # <<>>}}
    ELSE {}
KeysWellFormed(cache) ==
    \A domain \in DOMAIN cache.exact_matches :
        IsLowercaseStr(domain) /\ domain # <<>> /\ domain[Len(domain)] = "."

\* C12 as stated: the key of every named lease is lowercase(hostname) followed by
\* the normalized suffix as configured and a dot, and every key is lowercase and
\* ends with a dot.
C12_KeyIsLowerHostPlusSuffix ==
    mainPc = "serve"
    => /\ KeysWellFormed(records)
       /\ \A lease \in NamedLeases(dhcp_file) :
             LET key == ToLowercase(lease.hostname)
                          \o NormalizedSuffix(config.domain_suffix) \o <<".">>
             IN /\ key \in DOMAIN records.exact_matches
                /\ Ipv4AddrNew(lease.address) \in Range(records.exact_matches[key])

\* C12 amended: the key of every named lease is the lowercase of the whole of
\* hostname, normalized suffix and dot; every key is lowercase and ends with a dot.
C12_KeyIsLowercasedWhole ==
    mainPc = "serve"
    => /\ KeysWellFormed(records)
       /\ \A lease \in NamedLeases(dhcp_file) :
             LET key == ToLowercase(lease.hostname \o NormalizedSuffix(config.domain_suffix)
                                      \o <<".">>)
             IN /\ key \in DOMAIN records.exact_matches
                /\ Ipv4AddrNew(lease.address) \in Range(records.exact_matches[key])

\* C12 witness: a store built from a lease with an upper-case hostname under a
\* suffix with an upper-case letter and a leading dot.
C12_Witness ==
    /\ mainPc = "serve"
    /\ ~IsLowercaseStr(config.domain_suffix)
    /\ \E lease \in NamedLeases(dhcp_file) : ~IsLowercaseStr(lease.hostname)
    /\ <<"b", ".", "l", ".">> \in DOMAIN records.exact_matches

\* the next poll would find a modification time that differs from the recorded one
PollDetectsChange ==
    \/ Mtime(dhcp_file) # last_dhcp_mtime
    \/ Mtime(hosts_file) # last_hosts_mtime
\* both files can be read, and the active store is not the one they would build
StoreIsStale ==
    /\ LoadRecords(dhcp_file, hosts_file, config.domain_suffix).ok
    /\ records # LoadRecords(dhcp_file, hosts_file, config.domain_suffix).cache

\* C13: when the last reload attempt has failed, the reload task is back in its
\* sleep, the cause has cleared and the store does not reflect the files, the next
\* poll attempts the rebuild again although no modification time changes further.
C13_FailedReloadIsRetried ==
    (supPc = "sleep" /\ last_log = "failed" /\ StoreIsStale) => PollDetectsChange

\* C14: while the reload task is idle and has not yet run any reload, a store
\* that does not reflect the files (they were modified after the initial load
\* read them) is detected by the next poll.
C14_EarlyModificationDetected ==
    (supPc = "sleep" /\ last_log = "none" /\ StoreIsStale) => PollDetectsChange

\* C15: a sleeping reload task can go on to a rebuild exactly when a file's
\* current modification time (absent or present) differs from the recorded one;
\* the poll that does so records both current times, so that one rebuild serves
\* both changes, and a rebuild is entered from a poll only; as long as the task
\* stays asleep the store, the lock and the recorded times are untouched.
C15_PollReloadsIffChanged ==
    /\ [](supPc = "sleep"
            => (ENABLED (Supervisor /\ supPc' = "load") <=> PollDetectsChange))
    /\ [][/\ (supPc = "sleep" /\ supPc' # "sleep")
               => /\ supPc' = "load"
                  /\ PollDetectsChange
                  /\ last_dhcp_mtime' = Mtime(dhcp_file)
                  /\ last_hosts_mtime' = Mtime(hosts_file)
                  /\ records' = records /\ ~writer'
          /\ (supPc = "sleep" /\ supPc' = "sleep")
               => /\ records' = records /\ ~writer /\ ~writer'
                  /\ new_cache' = new_cache
                  /\ last_dhcp_mtime' = last_dhcp_mtime
                  /\ last_hosts_mtime' = last_hosts_mtime
          /\ (supPc # "load" /\ supPc' = "load") => supPc = "sleep"
          /\ (supPc = "load" /\ supPc' # "load") => supPc' \in {"write_wait", "sleep"}]_vars

\* C15 witness: the first poll that found a change has sent the task to one
\* rebuild, both files having been rewritten and both times recorded.
C15_Witness ==
    /\ supPc = "load"
    /\ last_log = "none"
    /\ dhcp_file.exists /\ dhcp_file.mtime > 0 /\ last_dhcp_mtime = Some(dhcp_file.mtime)
    /\ hosts_file.exists /\ hosts_file.mtime > 0 /\ last_hosts_mtime = Some(hosts_file.mtime)

\* C16: the write guard is held only in the step that assigns the store: it is
\* taken after load_records has returned, with the built store in hand, and
\* dropped by the assignment; while the reload task reads and builds it holds no
\* guard, the store is the old one and a handler waiting for the read lock can
\* take it.
C16_WriteLockOnlyForSwap ==
    /\ [](writer => supPc = "swap")
    /\ [](\A h \in Handlers :
            (supPc = "load" /\ handlers[h].pc = "read_wait") => ENABLED AcquireRead(h))
    /\ [][/\ (~writer /\ writer')
               => supPc = "write_wait" /\ new_cache' = new_cache /\ records' = records
          /\ supPc = "load" => (~writer /\ ~writer' /\ records' = records)
          /\ (writer /\ ~writer') => records' = new_cache]_vars

\* C16 witness: during a rebuild one handler resolves under the read lock and
\* another is about to take it.
C16_Witness ==
    /\ supPc = "load"
    /\ \E h, g \in Handlers :
          /\ h \in readers
          /\ handlers[g].pc = "read_wait"

\* C17: a handler holds a read guard exactly while it is in its lookup; it has
\* dropped it when it goes on to serialize and send, so that with no handler in a
\* lookup the reload task waiting for the write lock gets it, whatever the other
\* handlers are doing.
C17_ReadLockOnlyForLookup ==
    /\ [](\A h \in Handlers : h \in readers <=> Looking(h))
    /\ []((supPc = "write_wait" /\ \A h \in Handlers : ~Looking(h)) => ENABLED AcquireWrite)
    /\ [][\A h \in Handlers :
             (handlers[h].pc # "send" /\ handlers'[h].pc = "send") => h \notin readers']_vars

\* C17 witness: the reload task holds the write guard while a handler that has
\* resolved its question has not yet sent its response.
C17_Witness ==
    /\ writer
    /\ \E h \in Handlers :
          /\ handlers[h].pc = "send"
          /\ HasQuestion(h)
          /\ handlers[h].response.response_code = "NoError"

Finished(h) == handlers[h].pc \in {"idle", "done", "failed"}

\* C18: whenever main serves, a datagram can be received into any task slot whose
\* task has finished, whatever the lock, the reload task and the other handlers
\* are doing; the receiving step takes no lock, waits for nothing and leaves the
\* store, the reload task and the other handlers alone.
C18_ReceiveNeverBlocked ==
    /\ [](\A h \in Handlers :
            (mainPc = "serve" /\ Finished(h)) => ENABLED Receive(h, QueryBL))
    /\ [][\A h \in Handlers :
             (handlers[h].pc # "start" /\ handlers'[h].pc = "start")
             => /\ records' = records /\ readers' = readers /\ writer' = writer
                /\ supPc' = supPc
                /\ \A g \in Handlers \ {h} : handlers'[g] = handlers[g]]_vars

\* C18 witness: a datagram has just been received while the handler of an earlier
\* one waits for the read lock behind the reload task's write guard.
C18_Witness ==
    /\ writer
    /\ \E h, g \in Handlers :
          /\ handlers[h].pc = "read_wait"
          /\ handlers[g].pc = "start"

\* C19: the store changes only when main constructs it and when the reload task's
\* swap replaces it by the store its rebuild has built from the files; no step of
\* a handler changes it, and the step in which a handler fails leaves the store,
\* the lock and every other handler as they were.
C19_StoreReplacedOnlyBySwap ==
    [][/\ records' # records
            => \/ mainPc = "load" /\ mainPc' = "serve"
               \/ /\ supPc = "swap" /\ supPc' = "sleep"
                  /\ records' = new_cache
                  /\ handlers' = handlers
       /\ (supPc = "load" /\ supPc' = "write_wait")
            => new_cache' = LoadRecords(dhcp_file, hosts_file, config.domain_suffix).cache
       /\ supPc \in {"write_wait", "swap"} => new_cache' \in {new_cache, DnsCacheDefault}
       /\ handlers' # handlers => records' = records
       /\ \A h \in Handlers :
             (handlers[h].pc # "failed" /\ handlers'[h].pc = "failed")
             => /\ records' = records /\ readers' = readers /\ writer' = writer
                /\ \A g \in Handlers \ {h} : handlers'[g] = handlers[g]]_vars

\* C19 witness: after a reload one handler's send has failed and another handler
\* has sent the two addresses that only the reloaded store holds.
C19_Witness ==
    /\ last_log = "reloaded"
    /\ \E h, g \in Handlers :
          /\ handlers[h].pc = "failed" /\ handlers[h].data.decodable
          /\ handlers[g].pc = "done"
          /\ Len(handlers[g].sent) = 1
          /\ Len(handlers[g].sent[1].response.answers) = 2

\* C20: a handler sends at most one response, to the source of its datagram and
\* with the request's id, opcode and recursion-desired flag; an undecodable
\* datagram gets no response and never reaches the lock or a lookup; a handler
\* that finishes without error has sent exactly one response, and one that fails
\* has sent none.
C20_OneResponsePerDatagram ==
    \A h \in Handlers :
        LET hd == handlers[h]
        IN /\ Len(hd.sent) <= 1
           /\ \A i \in 1..Len(hd.sent) :
                 /\ hd.sent[i].to = hd.data.src
                 /\ hd.sent[i].response.id = hd.data.id
                 /\ hd.sent[i].response.op_code = hd.data.op_code
                 /\ hd.sent[i].response.recursion_desired = hd.data.recursion_desired
                 /\ hd.sent[i].response.message_type = "Response"
           /\ (hd.pc # "idle" /\ ~hd.data.decodable)
                => /\ hd.pc \in {"start", "failed"}
                   /\ hd.sent = <<>>
                   /\ hd.response = NoResponse
                   /\ h \notin readers
           /\ hd.pc = "done" => (Len(hd.sent) = 1 /\ hd.data.decodable)
           /\ hd.pc # "done" => hd.sent = <<>>

\* C20 witness: the one response to a message with opcode Status has been sent
\* to its source with the id, the opcode and the cleared flag of the request.
C20_Witness ==
    \E h \in Handlers :
        /\ handlers[h].pc = "done"
        /\ handlers[h].data.op_code = "Status"
        /\ handlers[h].sent = <<[to |-> "p3", response |-> handlers[h].response]>>
        /\ handlers[h].response.id = 9
        /\ handlers[h].response.op_code = "Status"
        /\ ~handlers[h].response.recursion_desired

====
